---- MODULE Spec2Model ----
(***************************************************************************)
(* A model of double_site.py: the polling run `main`, the request wrapper  *)
(* `make_camping_request`, the projection `parse_camping_response` and the *)
(* notifier `send_email_notification`.                                     *)
(*                                                                         *)
(* Python values are modelled as follows.  None, True and False are the    *)
(* strings "None", "True", "False".  A calendar date is its ordinal (a     *)
(* natural number); an ISO date string of the configuration is a record    *)
(* [day, padded] so that strptime/strftime are real conversions.  The date *)
(* strings of the remote payload are opaque strings.  A raised exception   *)
(* is the field `raised` of a call's outcome.                              *)
(*                                                                         *)
(* The specifications share the variables:                                 *)
(*   Spec       a run of main under the date configuration of the source,  *)
(*              with any excluded set and payloads of every shape;         *)
(*   SpecDates  a run of main under any date configuration, with the empty *)
(*              excluded set of the source and one answer of each kind;    *)
(*   SpecStrings as SpecDates, the configured date strings written with or *)
(*              without leading zeros;                                     *)
(*   SpecOrder  as Spec, with payloads of several entries kept in the      *)
(*              history of the requests;                                   *)
(*   SpecFetch  one call of make_camping_request on any answer;            *)
(*   SpecNotify one call of send_email_notification on any list.           *)
(***************************************************************************)
EXTENDS Integers, Sequences, FiniteSets, TLC

VARIABLES
    DATE_RANGES,              \* configuration: sequence of <<start string, end string>>
    EXCLUDED_DATES,           \* configuration: the keys tested by `in EXCLUDED_DATES`
    clock,                    \* date.today() as read by main
    pc,                       \* position of main: collect, filter, done, raised
    ri,                       \* index of the current entry of DATE_RANGES
    li,                       \* index of the next location of the current range; 0 between ranges
    effective_start_str,      \* main's local of the current range
    end_str,                  \* main's local of the current range
    requests,                 \* history: one record per call of make_camping_request
    all_available_resources,  \* main's aggregation list
    fi,                       \* index of the next resource of the filtering pass
    filtered_resources,       \* main's filtered list
    notifyCalls,              \* history: argument of each call of send_email_notification
    smtp,                     \* history: outcome of each SMTP delivery attempt
    log,                      \* console lines of the notification stage
    retval,                   \* what main returned ("unset" until it returns)
    call                      \* the single call explored by SpecFetch, SpecNotify

vars == <<DATE_RANGES, EXCLUDED_DATES, clock, pc, ri, li, effective_start_str, end_str,
          requests, all_available_resources, fi, filtered_resources, notifyCalls, smtp,
          log, retval, call>>

(***************************************************************************)
(* Bounds                                                                  *)
(***************************************************************************)
MaxDay == 2            \* configured dates are MaxDay consecutive days
MaxRanges == 2         \* DATE_RANGES has at most MaxRanges entries
MaxCards == 2          \* availabilityCards of a payload explored by SpecFetch, SpecOrder
MaxCardRanges == 2     \* dateRanges of one card
MaxRunCards == 1       \* availabilityCards of a payload answered during a run
MaxResults == 2        \* results aggregated during a run

(***************************************************************************)
(* Python values                                                           *)
(***************************************************************************)
PyNone == "None"
PyTrue == "True"
PyFalse == "False"

RECURSIVE SeqsUpTo(_, _)
SeqsUpTo(S, n) ==
    IF n = 0 THEN {<<>>}
    ELSE LET shorter == SeqsUpTo(S, n - 1)
         IN shorter \cup {Append(s, x) : s \in {t \in shorter : Len(t) = n - 1}, x \in S}

(***************************************************************************)
(* Configuration                                                           *)
(***************************************************************************)
LOOKAHEAD_DAYS == 2

RESOURCE_LOCATIONS ==
    << [name |-> "Golden Ears", id |-> -2147483606],
       [name |-> "Alice Lake",  id |-> -2147483647] >>

\* The configured days, placed so that no clock of the model is negative.
Days == (LOOKAHEAD_DAYS + 1)..(LOOKAHEAD_DAYS + MaxDay)

\* date.today(): today + 2 days runs from the first configured day to the
\* day after the last.
Clocks == 1..(MaxDay + 1)

\* DATE_RANGES of the source: two adjoining ranges, the end of the first
\* being the start of the second.
SourceDateRanges ==
    << <<[day |-> LOOKAHEAD_DAYS + 1, padded |-> TRUE], [day |-> LOOKAHEAD_DAYS + 2, padded |-> TRUE]>>,
       <<[day |-> LOOKAHEAD_DAYS + 2, padded |-> TRUE], [day |-> LOOKAHEAD_DAYS + 3, padded |-> TRUE]>> >>

strptime(s) == s.day

strftime(d) == [day |-> d, padded |-> TRUE]

ConfigDateStrings == {[day |-> d, padded |-> TRUE] : d \in Days}

\* As well the strings strptime accepts without leading zeros ("2025-9-1").
AnyDateStrings == [day : Days, padded : BOOLEAN]

(***************************************************************************)
(* The remote payload                                                      *)
(***************************************************************************)
PayloadDates == {"2025-08-10", "2025-08-12"}

\* {start, end} objects of a payload; "None" is what dr.get returns for a
\* missing (or null) key.
WellFormedRanges ==
    { [start |-> "2025-08-10", end |-> "2025-08-12"],
      [start |-> "2025-08-12", end |-> "2025-08-12"] }

PayloadRanges ==
    WellFormedRanges
    \cup { [start |-> PyNone,       end |-> "2025-08-12"],
           [start |-> "2025-08-10", end |-> PyNone] }

ResourceIds == {-2147483646, -2147483640}

JunkCard == [isObject |-> FALSE, resourceId |-> 0, hasDateRanges |-> FALSE, dateRanges |-> <<>>]

Cards(ids, ranges, maxRanges) ==
    {JunkCard}
    \cup {[isObject |-> TRUE, resourceId |-> id, hasDateRanges |-> FALSE, dateRanges |-> <<>>] :
            id \in ids}
    \cup {[isObject |-> TRUE, resourceId |-> id, hasDateRanges |-> TRUE, dateRanges |-> drs] :
            id \in ids, drs \in SeqsUpTo(ranges, maxRanges)}

\* What response.json() decodes to.
Bodies(ids, ranges, maxCards, maxRanges) ==
    { [isObject |-> FALSE, hasCards |-> FALSE, cards |-> <<>>],
      [isObject |-> TRUE,  hasCards |-> FALSE, cards |-> <<>>] }
    \cup {[isObject |-> TRUE, hasCards |-> TRUE, cards |-> cs] :
            cs \in SeqsUpTo(Cards(ids, ranges, maxRanges), maxCards)}

NoBody == [isObject |-> FALSE, hasCards |-> FALSE, cards |-> <<>>]

\* What requests.post does: raise, or a response with a status and a body
\* that decodes (decodes = TRUE) or makes response.json() raise.
Responses(ids, ranges, maxCards, maxRanges) ==
    { [transport |-> "error", status_code |-> 0,   decodes |-> FALSE, json |-> NoBody],
      [transport |-> "ok",    status_code |-> 500, decodes |-> FALSE, json |-> NoBody],
      [transport |-> "ok",    status_code |-> 200, decodes |-> FALSE, json |-> NoBody] }
    \cup {[transport |-> "ok", status_code |-> 200, decodes |-> TRUE, json |-> b] :
            b \in Bodies(ids, ranges, maxCards, maxRanges)}

(***************************************************************************)
(* parse_camping_response                                                  *)
(***************************************************************************)
Returned(v) == [raised |-> FALSE, value |-> v]
Raised == [raised |-> TRUE, value |-> <<>>]

\* Variant: the test `if date_ranges:` left out.
Truthy_always(date_ranges) == TRUE

\* `if date_ranges:` -- the truth value of a list.
Truthy(date_ranges) == date_ranges # <<>>

RECURSIVE ParseCards(_, _, _)
ParseCards(cards, location_name, available_resources) ==
    IF cards = <<>> THEN Returned(available_resources)
    ELSE LET card == Head(cards)
         IN IF ~card.isObject THEN Raised        \* card.get: AttributeError
            ELSE LET date_ranges == IF card.hasDateRanges THEN card.dateRanges ELSE <<>>
                 IN ParseCards(Tail(cards), location_name,
                        IF Truthy(date_ranges)
                        THEN Append(available_resources,
                                 [locationName |-> location_name,
                                  resourceId   |-> card.resourceId,
                                  dateRanges   |-> date_ranges])
                        ELSE available_resources)

parse_camping_response(json_response, location_name) ==
    IF ~json_response.isObject THEN Raised       \* json_response.get: AttributeError
    ELSE ParseCards(IF json_response.hasCards THEN json_response.cards ELSE <<>>,
                    location_name, <<>>)

(***************************************************************************)
(* make_camping_request                                                    *)
(***************************************************************************)
\* The body of the try block.
TryRequest(response, location_name) ==
    IF response.transport = "error" THEN Raised
    ELSE IF response.status_code = 200
         THEN IF ~response.decodes THEN Raised   \* response.json() raises
              ELSE parse_camping_response(response.json, location_name)
         ELSE Returned(<<>>)

\* Variant: no except clause, the exception leaves the function.
make_camping_request_no_except(response, location_name) ==
    TryRequest(response, location_name)

\* The except clause: any exception of the try block becomes [].
make_camping_request(response, location_name) ==
    LET r == TryRequest(response, location_name)
    IN IF r.raised THEN Returned(<<>>) ELSE r

(***************************************************************************)
(* send_email_notification                                                 *)
(***************************************************************************)
NoResourcesLine == "No available resources to notify about."
NoPasswordLine == "GMAIL_APP_PASSWORD environment variable is not set."
EmailSentLine == "Email sent successfully"
EmailFailedLine == "Failed to send email"
NoAvailabilityLine == "No availability found after filtering out excluded dates."

Outcome(raised, value, lines, attempts) ==
    [raised |-> raised, value |-> value, lines |-> lines, attempts |-> attempts]

\* Variant: the SMTP session outside any try block.
Deliver_no_except(smtp_ok) ==
    IF smtp_ok
    THEN Outcome(FALSE, PyTrue, <<EmailSentLine>>, <<"delivered">>)
    ELSE Outcome(TRUE, PyNone, <<>>, <<"failed">>)

\* The try block around the SMTP session and its except clause.
\* smtp_ok: whether login and sendmail go through.
Deliver(smtp_ok) ==
    IF smtp_ok
    THEN Outcome(FALSE, PyTrue, <<EmailSentLine>>, <<"delivered">>)
    ELSE Outcome(FALSE, PyFalse, <<EmailFailedLine>>, <<"failed">>)

\* Variant: no test of the credential before the delivery.
send_email_notification_unchecked(available_resources, app_password_set, smtp_ok) ==
    IF available_resources = <<>>
    THEN Outcome(FALSE, PyFalse, <<NoResourcesLine>>, <<>>)
    ELSE Deliver(smtp_ok)

\* app_password_set: whether os.environ holds GMAIL_APP_PASSWORD.
send_email_notification(available_resources, app_password_set, smtp_ok) ==
    IF available_resources = <<>>
    THEN Outcome(FALSE, PyFalse, <<NoResourcesLine>>, <<>>)
    ELSE IF ~app_password_set
         THEN Outcome(FALSE, PyFalse, <<NoPasswordLine>>, <<>>)
         ELSE Deliver(smtp_ok)

(***************************************************************************)
(* main: the filtering pass                                                *)
(***************************************************************************)
\* "start = " + start raises TypeError when start is None.
ConcatRaises(s) == s = PyNone

\* Variant: `or` in place of `and`.
KeepRange_or(start, end, excluded) == start \notin excluded \/ end \notin excluded

KeepRange(start, end, excluded) == start \notin excluded /\ end \notin excluded

\* Variant: the test `if filtered_date_ranges:` left out.
KeepResource_always(filtered_date_ranges) == TRUE

KeepResource(filtered_date_ranges) == filtered_date_ranges # <<>>

\* The inner loop over resource["dateRanges"].
RECURSIVE FilterRanges(_, _, _)
FilterRanges(dateRanges, excluded, filtered_date_ranges) ==
    IF dateRanges = <<>> THEN Returned(filtered_date_ranges)
    ELSE LET dr == Head(dateRanges)
             start == dr.start
             end == dr.end
         IN IF ConcatRaises(start) \/ ConcatRaises(end) THEN Raised
            ELSE FilterRanges(Tail(dateRanges), excluded,
                     IF KeepRange(start, end, excluded)
                     THEN Append(filtered_date_ranges, dr)
                     ELSE filtered_date_ranges)

\* Variant: the inner loop starts at the second date range.
FilterResource_from_second(resource, excluded, filtered) ==
    LET r == FilterRanges(IF resource.dateRanges = <<>> THEN <<>> ELSE Tail(resource.dateRanges),
                          excluded, <<>>)
    IN IF r.raised THEN Raised
       ELSE Returned(IF KeepResource(r.value)
                     THEN Append(filtered,
                              [locationName |-> resource.locationName,
                               resourceId   |-> resource.resourceId,
                               dateRanges   |-> r.value])
                     ELSE filtered)

\* One iteration of `for resource in all_available_resources`.
FilterResource(resource, excluded, filtered) ==
    LET r == FilterRanges(resource.dateRanges, excluded, <<>>)
    IN IF r.raised THEN Raised
       ELSE Returned(IF KeepResource(r.value)
                     THEN Append(filtered,
                              [locationName |-> resource.locationName,
                               resourceId   |-> resource.resourceId,
                               dateRanges   |-> r.value])
                     ELSE filtered)

\* The whole filtering pass over a sequence of results.
RECURSIVE FilterFrom(_, _, _)
FilterFrom(resources, excluded, filtered) ==
    IF resources = <<>> THEN Returned(filtered)
    ELSE LET r == FilterResource(Head(resources), excluded, filtered)
         IN IF r.raised THEN Raised
            ELSE FilterFrom(Tail(resources), excluded, r.value)

FilterPass(resources, excluded) == FilterFrom(resources, excluded, <<>>)

(***************************************************************************)
(* main: the collection loop                                               *)
(***************************************************************************)
\* today = date.today() + timedelta(days=2)
today == clock + LOOKAHEAD_DAYS

start_dt(r) == strptime(DATE_RANGES[r][1])
end_dt(r) == strptime(DATE_RANGES[r][2])

Max(a, b) == IF a >= b THEN a ELSE b

\* Variant: the configured start is sent as it is.
effective_start_unclamped(r) == start_dt(r)

\* effective_start = max(start_dt, today)
effective_start(r) == Max(start_dt(r), today)

\* Variant: no range is ever skipped.
InThePast_never(end, t) == FALSE

\* `if end_dt < today: ... continue`
InThePast(end, t) == end < t


\* Whether the try block of make_camping_request got a 200 and projected it.
Succeeded(response, location_name) ==
    /\ response.transport = "ok"
    /\ response.status_code = 200
    /\ ~TryRequest(response, location_name).raised

RunResponses == Responses({-2147483646}, PayloadRanges, MaxRunCards, MaxCardRanges)

\* The answers of the remote explored when the date configuration varies:
\* a failure of each kind, an empty payload, a payload with one result.
LeanResponses ==
    Responses({-2147483646}, {[start |-> "2025-08-10", end |-> "2025-08-12"]}, 1, 1)

Configurations == SeqsUpTo(ConfigDateStrings \X ConfigDateStrings, MaxRanges)

Idle == [location_name |-> "", response |-> [transport |-> "error", status_code |-> 0,
                                             decodes |-> FALSE, json |-> NoBody],
         result |-> Returned(<<>>)]

InitRun ==
    /\ pc = "collect"
    /\ ri = 1
    /\ li = 0
    /\ effective_start_str = strftime(0)
    /\ end_str = strftime(0)
    /\ requests = <<>>
    /\ all_available_resources = <<>>
    /\ fi = 0
    /\ filtered_resources = <<>>
    /\ notifyCalls = <<>>
    /\ smtp = <<>>
    /\ log = <<>>
    /\ retval = "unset"
    /\ call = Idle

\* The date configuration of the source, any excluded set, any clock.
Init ==
    /\ DATE_RANGES = SourceDateRanges
    /\ EXCLUDED_DATES \in SUBSET PayloadDates
    /\ clock \in Clocks
    /\ InitRun

\* Any date configuration, the excluded set of the source (empty), any clock.
InitDates ==
    /\ DATE_RANGES \in Configurations
    /\ EXCLUDED_DATES = {}
    /\ clock \in Clocks
    /\ InitRun

\* Variant: the outer loop ends after its first range.
OuterLoopOver_early(r) == r > Len(DATE_RANGES) \/ r > 1

\* The outer for loop has gone through DATE_RANGES.
OuterLoopOver(r) == r > Len(DATE_RANGES)

\* Top of the outer loop, a range that lies in the past: skipped.
SkipRange ==
    /\ pc = "collect" /\ li = 0 /\ ~OuterLoopOver(ri)
    /\ InThePast(end_dt(ri), today)
    /\ ri' = ri + 1
    /\ UNCHANGED <<DATE_RANGES, EXCLUDED_DATES, clock, pc, li, effective_start_str, end_str,
                   requests, all_available_resources, fi, filtered_resources, notifyCalls,
                   smtp, log, retval, call>>

\* Top of the outer loop, a range that is kept: the two request dates are set.
EnterRange ==
    /\ pc = "collect" /\ li = 0 /\ ~OuterLoopOver(ri)
    /\ ~InThePast(end_dt(ri), today)
    /\ effective_start_str' = strftime(effective_start(ri))
    /\ end_str' = strftime(end_dt(ri))
    /\ li' = 1
    /\ UNCHANGED <<DATE_RANGES, EXCLUDED_DATES, clock, pc, ri, requests,
                   all_available_resources, fi, filtered_resources, notifyCalls, smtp, log,
                   retval, call>>

\* Variant: found is put in front of the list.
Extend_in_front(resources, found) == found \o resources

\* all_available_resources.extend(found)
Extend(resources, found) == resources \o found

\* Variant: a location whose query failed is queried again.
NextLocation_retry(l, succeeded) == IF succeeded THEN l + 1 ELSE l

\* The inner for loop moves to the next location, whatever the query gave.
NextLocation(l, succeeded) == l + 1

\* History only: the availabilityCards of a decoded 200 answer.
PayloadEntries(response) ==
    IF /\ response.transport = "ok" /\ response.status_code = 200 /\ response.decodes
       /\ response.json.isObject /\ response.json.hasCards
    THEN response.json.cards
    ELSE <<>>

\* One iteration of the inner loop: one request, its results appended.
\* keep_payload: whether the history keeps the payload of the answer.
Query(responses, keep_payload) ==
    /\ pc = "collect" /\ li >= 1
    /\ \E response \in responses :
         LET location == RESOURCE_LOCATIONS[li]
             found == make_camping_request(response, location.name)
             next == NextLocation(li, Succeeded(response, location.name))
             last == next > Len(RESOURCE_LOCATIONS)
         IN /\ Len(all_available_resources) + Len(found.value) <= MaxResults
            /\ requests' = Append(requests,
                    [range |-> ri, location_name |-> location.name,
                     location_id |-> location.id,
                     startDate |-> effective_start_str, endDate |-> end_str,
                     succeeded |-> Succeeded(response, location.name),
                     raised |-> found.raised, found |-> found.value,
                     payload |-> IF keep_payload THEN PayloadEntries(response) ELSE <<>>])
            /\ IF found.raised
               THEN /\ pc' = "raised"
                    /\ UNCHANGED <<all_available_resources, li, ri>>
               ELSE /\ pc' = pc
                    /\ all_available_resources' = Extend(all_available_resources, found.value)
                    /\ li' = IF last THEN 0 ELSE next
                    /\ ri' = IF last THEN ri + 1 ELSE ri
    /\ UNCHANGED <<DATE_RANGES, EXCLUDED_DATES, clock, effective_start_str, end_str, fi,
                   filtered_resources, notifyCalls, smtp, log, retval, call>>

(***************************************************************************)
(* main: filtering and notification                                        *)
(***************************************************************************)
\* The outer loop is exhausted: filtered_resources = [].
StartFilter ==
    /\ pc = "collect" /\ li = 0 /\ OuterLoopOver(ri)
    /\ pc' = "filter"
    /\ fi' = 1
    /\ filtered_resources' = <<>>
    /\ UNCHANGED <<DATE_RANGES, EXCLUDED_DATES, clock, ri, li, effective_start_str, end_str,
                   requests, all_available_resources, notifyCalls, smtp, log, retval, call>>

FilterStep ==
    /\ pc = "filter" /\ fi <= Len(all_available_resources)
    /\ LET r == FilterResource(all_available_resources[fi], EXCLUDED_DATES, filtered_resources)
       IN IF r.raised
          THEN /\ pc' = "raised"
               /\ UNCHANGED <<fi, filtered_resources>>
          ELSE /\ pc' = pc
               /\ fi' = fi + 1
               /\ filtered_resources' = r.value
    /\ UNCHANGED <<DATE_RANGES, EXCLUDED_DATES, clock, ri, li, effective_start_str, end_str,
                   requests, all_available_resources, notifyCalls, smtp, log, retval, call>>

\* `if filtered_resources:` -- the one call of send_email_notification; its
\* return value is dropped and main falls off its end.
Notify ==
    /\ pc = "filter" /\ fi > Len(all_available_resources)
    /\ filtered_resources # <<>>
    /\ \E app_password_set \in BOOLEAN, smtp_ok \in BOOLEAN :
         LET r == send_email_notification(filtered_resources, app_password_set, smtp_ok)
         IN /\ notifyCalls' = Append(notifyCalls, filtered_resources)
            /\ smtp' = smtp \o r.attempts
            /\ log' = log \o r.lines
            /\ IF r.raised
               THEN pc' = "raised" /\ UNCHANGED retval
               ELSE pc' = "done" /\ retval' = PyNone
    /\ UNCHANGED <<DATE_RANGES, EXCLUDED_DATES, clock, ri, li, effective_start_str, end_str,
                   requests, all_available_resources, fi, filtered_resources, call>>

\* The else branch: nothing is left after filtering.
NothingToNotify ==
    /\ pc = "filter" /\ fi > Len(all_available_resources)
    /\ filtered_resources = <<>>
    /\ log' = Append(log, NoAvailabilityLine)
    /\ pc' = "done"
    /\ retval' = PyNone
    /\ UNCHANGED <<DATE_RANGES, EXCLUDED_DATES, clock, ri, li, effective_start_str, end_str,
                   requests, all_available_resources, fi, filtered_resources, notifyCalls,
                   smtp, call>>

Next ==
    \/ SkipRange
    \/ EnterRange
    \/ Query(RunResponses, FALSE)
    \/ StartFilter
    \/ FilterStep
    \/ Notify
    \/ NothingToNotify

Spec == Init /\ [][Next]_vars

\* Any date configuration, written with or without leading zeros.
InitStrings ==
    /\ DATE_RANGES \in SeqsUpTo(AnyDateStrings \X AnyDateStrings, MaxRanges)
    /\ EXCLUDED_DATES = {}
    /\ clock \in Clocks
    /\ InitRun

NextDates ==
    \/ SkipRange
    \/ EnterRange
    \/ Query(LeanResponses, FALSE)
    \/ StartFilter
    \/ FilterStep
    \/ Notify
    \/ NothingToNotify

SpecDates == InitDates /\ [][NextDates]_vars

SpecStrings == InitStrings /\ [][NextDates]_vars

\* The answers of the remote explored for the order of the results: a
\* transport failure, and payloads of up to MaxCards entries among an entry
\* with two date ranges, an entry with one and an entry with none.
OrderCards ==
    { [isObject |-> TRUE, resourceId |-> -2147483646, hasDateRanges |-> TRUE,
       dateRanges |-> << [start |-> "2025-08-10", end |-> "2025-08-12"],
                         [start |-> "2025-08-12", end |-> "2025-08-12"] >>],
      [isObject |-> TRUE, resourceId |-> -2147483640, hasDateRanges |-> TRUE,
       dateRanges |-> << [start |-> "2025-08-12", end |-> "2025-08-12"] >>],
      [isObject |-> TRUE, resourceId |-> -2147483640, hasDateRanges |-> TRUE,
       dateRanges |-> <<>>] }

OrderResponses ==
    { [transport |-> "error", status_code |-> 0, decodes |-> FALSE, json |-> NoBody] }
    \cup {[transport |-> "ok", status_code |-> 200, decodes |-> TRUE,
           json |-> [isObject |-> TRUE, hasCards |-> TRUE, cards |-> cs]] :
            cs \in SeqsUpTo(OrderCards, MaxCards)}

NextOrder ==
    \/ SkipRange
    \/ EnterRange
    \/ Query(OrderResponses, TRUE)
    \/ StartFilter
    \/ FilterStep
    \/ Notify
    \/ NothingToNotify

\* The date configuration of the source, any excluded set, any clock; the
\* history keeps the payload of every answer.
SpecOrder == Init /\ [][NextOrder]_vars

(***************************************************************************)
(* One call of make_camping_request, on any answer of the remote           *)
(***************************************************************************)
FetchResponses == Responses(ResourceIds, WellFormedRanges, MaxCards, MaxCardRanges)

InitFetch ==
    /\ DATE_RANGES = SourceDateRanges
    /\ EXCLUDED_DATES = {}
    /\ clock = 1
    /\ InitRun

Fetch ==
    /\ call = Idle
    /\ \E response \in FetchResponses, i \in 1..Len(RESOURCE_LOCATIONS) :
         call' = [location_name |-> RESOURCE_LOCATIONS[i].name,
                  response |-> response,
                  result |-> make_camping_request(response, RESOURCE_LOCATIONS[i].name)]
    /\ UNCHANGED <<DATE_RANGES, EXCLUDED_DATES, clock, pc, ri, li, effective_start_str,
                   end_str, requests, all_available_resources, fi, filtered_resources,
                   notifyCalls, smtp, log, retval>>

SpecFetch == InitFetch /\ [][Fetch]_vars

(***************************************************************************)
(* One call of send_email_notification, on any list and environment        *)
(***************************************************************************)
NotifiableResults ==
    {[locationName |-> RESOURCE_LOCATIONS[i].name, resourceId |-> id, dateRanges |-> <<dr>>] :
        i \in 1..Len(RESOURCE_LOCATIONS), id \in ResourceIds, dr \in WellFormedRanges}

NotCalled ==
    [called |-> FALSE, available_resources |-> <<>>, app_password_set |-> FALSE,
     smtp_ok |-> FALSE, result |-> Outcome(FALSE, PyNone, <<>>, <<>>)]

InitNotify ==
    /\ DATE_RANGES = SourceDateRanges
    /\ EXCLUDED_DATES = {}
    /\ clock = 1
    /\ pc = "collect"
    /\ ri = 1
    /\ li = 0
    /\ effective_start_str = strftime(0)
    /\ end_str = strftime(0)
    /\ requests = <<>>
    /\ all_available_resources = <<>>
    /\ fi = 0
    /\ filtered_resources = <<>>
    /\ notifyCalls = <<>>
    /\ smtp = <<>>
    /\ log = <<>>
    /\ retval = "unset"
    /\ call = NotCalled

SendEmail ==
    /\ ~call.called
    /\ \E available_resources \in SeqsUpTo(NotifiableResults, MaxResults),
          app_password_set \in BOOLEAN, smtp_ok \in BOOLEAN :
         call' = [called |-> TRUE, available_resources |-> available_resources,
                  app_password_set |-> app_password_set, smtp_ok |-> smtp_ok,
                  result |-> send_email_notification(available_resources,
                                                     app_password_set, smtp_ok)]
    /\ UNCHANGED <<DATE_RANGES, EXCLUDED_DATES, clock, pc, ri, li, effective_start_str,
                   end_str, requests, all_available_resources, fi, filtered_resources,
                   notifyCalls, smtp, log, retval>>

SpecNotify == InitNotify /\ [][SendEmail]_vars

(***************************************************************************)
(* Properties                                                              *)
(***************************************************************************)
Range(s) == {s[i] : i \in 1..Len(s)}

Excluded(d) == d \in EXCLUDED_DATES

Terminated == pc \in {"done", "raised"}

\* The exception left main from the filtering pass (not from a query).
RaisedInFilter == pc = "raised" /\ fi >= 1 /\ notifyCalls = <<>>

\* C1: every date range of every result of the filtered sequence has neither
\* its start nor its end in the excluded set.
C1_FilteredAvoidsExcluded ==
    \A i \in 1..Len(filtered_resources) :
        \A dr \in Range(filtered_resources[i].dateRanges) :
            ~Excluded(dr.start) /\ ~Excluded(dr.end)

\* A finished run that aggregated a range with exactly one of its two
\* boundaries excluded, and that kept another range.
C1_Witness ==
    /\ pc = "done"
    /\ filtered_resources # <<>>
    /\ \E res \in Range(all_available_resources) :
          \E dr \in Range(res.dateRanges) : Excluded(dr.start) # Excluded(dr.end)

\* C2: every result of a sequence handed to send_email_notification has at
\* least one date range.
C2_NotifiedResultsNonEmpty ==
    \A k \in 1..Len(notifyCalls) :
        \A res \in Range(notifyCalls[k]) : Len(res.dateRanges) > 0

\* A notification went out although one aggregated result lost all of its
\* date ranges to the excluded set.
C2_Witness ==
    /\ notifyCalls # <<>>
    /\ \E res \in Range(all_available_resources) :
          \A dr \in Range(res.dateRanges) : Excluded(dr.start) \/ Excluded(dr.end)

\* The payload of an answer: what make_camping_request hands to the projection.
HasPayload(response) ==
    response.transport = "ok" /\ response.status_code = 200 /\ response.decodes

Entries(json) == IF json.isObject /\ json.hasCards THEN json.cards ELSE <<>>

HasDateRange(card) == card.isObject /\ card.hasDateRanges /\ Len(card.dateRanges) >= 1

EntriesWithDateRange(json) == SelectSeq(Entries(json), HasDateRange)

\* The payload is an object whose entries are all objects.
Projectable(json) == json.isObject /\ \A c \in Range(Entries(json)) : c.isObject

\* The results are the entries with a date range, one for one and in order,
\* tagged with the location name of the query and the resourceId of the entry.
OneResultPerEntryWithDateRange(c) ==
    LET with == EntriesWithDateRange(c.response.json)
        got == c.result.value
    IN /\ Len(got) = Len(with)
       /\ \A i \in 1..Len(got) :
            /\ got[i].locationName = c.location_name
            /\ got[i].resourceId = with[i].resourceId
            /\ got[i].dateRanges = with[i].dateRanges
            /\ Len(got[i].dateRanges) > 0

\* C3 as stated: for every payload the results have non-empty dateRanges and
\* are exactly the entries with at least one date range, tagged with the
\* location name of the query and the resourceId of the entry.
C3_AsStated ==
    (call # Idle /\ HasPayload(call.response)) => OneResultPerEntryWithDateRange(call)

\* C3 amended: that holds for every payload that is an object whose entries
\* are all objects; for any other payload there is no result at all.
C3_ResultsOfProjectablePayload ==
    (call # Idle /\ HasPayload(call.response)) =>
        /\ \A res \in Range(call.result.value) : Len(res.dateRanges) > 0
        /\ Projectable(call.response.json) => OneResultPerEntryWithDateRange(call)
        /\ ~Projectable(call.response.json) => call.result.value = <<>>

\* A payload of two entries, one with a date range and one with dateRanges
\* empty or absent: one result.
C3_Witness ==
    /\ call # Idle /\ HasPayload(call.response)
    /\ Projectable(call.response.json)
    /\ Len(Entries(call.response.json)) = 2
    /\ Len(call.result.value) = 1
    /\ \E c \in Range(Entries(call.response.json)) : c.hasDateRanges /\ c.dateRanges = <<>>

\* C4: the notification channel is invoked at most once; when the run ends
\* it has been invoked exactly once, with the filtered sequence, if the
\* filtered sequence is non-empty, and not at all if it is empty.
C4_NotifiedOnceIffNonEmpty ==
    /\ Len(notifyCalls) <= 1
    /\ Terminated =>
          notifyCalls = IF filtered_resources # <<>> THEN <<filtered_resources>> ELSE <<>>

\* Whether configured range r obeys the input constraint start <= end.
WellOrdered(r) == start_dt(r) <= end_dt(r)

\* C5 as stated: no request is issued for a range whose effective start date
\* exceeds its configured end date; every request has startDate <= endDate.
C5_AsStated ==
    \A q \in Range(requests) :
        /\ ~(effective_start(q.range) > end_dt(q.range))
        /\ strptime(q.startDate) <= strptime(q.endDate)

\* C5 amended: that holds for every range configured with start <= end.
C5_NoRequestPastTheEnd ==
    \A q \in Range(requests) :
        WellOrdered(q.range) =>
            /\ ~(effective_start(q.range) > end_dt(q.range))
            /\ strptime(q.startDate) <= strptime(q.endDate)

\* The collection is over, a well-ordered range whose effective start exceeds
\* its end went without a request, and another range was queried.
C5_Witness ==
    /\ pc = "done"
    /\ requests # <<>>
    /\ \E r \in 1..Len(DATE_RANGES) :
          /\ WellOrdered(r)
          /\ effective_start(r) > end_dt(r)
          /\ \A q \in Range(requests) : q.range # r

\* The answer is a failure: transport failure, non-200 status, or a 200
\* whose body cannot be decoded or projected.
FailureResponse(response) ==
    \/ response.transport = "error"
    \/ response.status_code # 200
    \/ ~response.decodes
    \/ ~Projectable(response.json)

\* C6: make_camping_request never raises, and returns the empty sequence
\* for every failure.
C6_RequestNeverRaises ==
    call # Idle =>
        /\ ~call.result.raised
        /\ FailureResponse(call.response) => call.result.value = <<>>

\* A 200 answer whose first entry has a date range and whose second entry
\* cannot be projected: the call returned the empty sequence.
C6_Witness ==
    /\ call # Idle /\ HasPayload(call.response)
    /\ Len(Entries(call.response.json)) = 2
    /\ HasDateRange(call.response.json.cards[1])
    /\ ~call.response.json.cards[2].isObject
    /\ call.result = Returned(<<>>)

\* The (range, location) pairs main has to query: range-major, every
\* location of every range that main does not skip.
RECURSIVE PairsFrom(_)
PairsFrom(r) ==
    IF r > Len(DATE_RANGES) THEN <<>>
    ELSE (IF InThePast(end_dt(r), today) THEN <<>>
          ELSE [i \in 1..Len(RESOURCE_LOCATIONS) |-> <<r, RESOURCE_LOCATIONS[i].name>>])
         \o PairsFrom(r + 1)

QueriedPairs == [i \in 1..Len(requests) |-> <<requests[i].range, requests[i].location_name>>]

RECURSIVE FoundFrom(_)
FoundFrom(i) ==
    IF i > Len(requests) THEN <<>>
    ELSE (IF requests[i].succeeded THEN requests[i].found ELSE <<>>) \o FoundFrom(i + 1)

CollectionOver == pc \in {"filter", "done"} \/ RaisedInFilter

\* C7: no query failure ends the collection; when the collection is over
\* every pair of every non-skipped range has been queried, and the
\* aggregated sequence holds exactly the results of the queries that
\* succeeded.
C7_FailuresDoNotAbort ==
    /\ pc = "raised" => RaisedInFilter
    /\ CollectionOver => QueriedPairs = PairsFrom(1)
    /\ all_available_resources = FoundFrom(1)
    /\ \A q \in Range(requests) : ~q.succeeded => q.found = <<>>

\* Two locations of one range, the first query failed, the second returned
\* one result: exactly that result was notified.
C7_Witness ==
    /\ pc = "done"
    /\ Len(requests) = 2
    /\ ~requests[1].succeeded
    /\ requests[2].succeeded /\ Len(requests[2].found) = 1
    /\ notifyCalls = <<requests[2].found>>

\* C8: no exception leaves main.
C8_NoExceptionLeavesMain == pc # "raised"

\* The notification was attempted and did not deliver.
NotificationFailed == notifyCalls # <<>> /\ "delivered" \notin Range(smtp)

\* C9: a failing notification does not raise; the run completes, the log
\* reports the failure, and that log differs from the log of a run with
\* nothing to notify.
C9_NotificationFailureContained ==
    /\ notifyCalls # <<>> => pc = "done"
    /\ NotificationFailed =>
          /\ EmailFailedLine \in Range(log) \/ NoPasswordLine \in Range(log)
          /\ NoAvailabilityLine \notin Range(log)
    /\ (pc = "done" /\ notifyCalls = <<>>) => log = <<NoAvailabilityLine>>

\* The SMTP session failed after a non-empty filtered sequence was produced.
C9_Witness ==
    /\ pc = "done"
    /\ filtered_resources # <<>>
    /\ smtp = <<"failed">>

\* C10: main returns True when the filtered sequence is non-empty and the
\* notification channel was invoked, and False when it is empty.
C10_ReturnsNotified ==
    pc = "done" =>
        retval = IF filtered_resources # <<>> /\ notifyCalls # <<>> THEN PyTrue ELSE PyFalse

\* C11: the filtering pass applied to its own output, with the same excluded
\* set, returns that output unchanged.
C11_FilterIdempotent ==
    FilterPass(filtered_resources, EXCLUDED_DATES) = Returned(filtered_resources)

\* A finished pass that dropped a whole result and a date range of another
\* result, and kept something.
C11_Witness ==
    /\ pc = "done"
    /\ filtered_resources # <<>>
    /\ Len(filtered_resources) < Len(all_available_resources)
    /\ \E i \in 1..Len(filtered_resources) : \E j \in 1..Len(all_available_resources) :
          /\ filtered_resources[i].locationName = all_available_resources[j].locationName
          /\ Len(filtered_resources[i].dateRanges) < Len(all_available_resources[j].dateRanges)

\* What the entries of a payload project to, in payload order.
ProjectionOf(q) ==
    LET with == SelectSeq(q.payload, HasDateRange)
    IN [i \in 1..Len(with) |-> [locationName |-> q.location_name,
                                resourceId   |-> with[i].resourceId,
                                dateRanges   |-> with[i].dateRanges]]

RECURSIVE ProjectionsFrom(_)
ProjectionsFrom(i) ==
    IF i > Len(requests) THEN <<>>
    ELSE ProjectionOf(requests[i]) \o ProjectionsFrom(i + 1)

\* s is t with some elements left out, the others in their order.
RECURSIVE IsSubsequence(_, _)
IsSubsequence(s, t) ==
    IF s = <<>> THEN TRUE
    ELSE IF t = <<>> THEN FALSE
    ELSE IF Head(s) = Head(t) THEN IsSubsequence(Tail(s), Tail(t))
    ELSE IsSubsequence(s, Tail(t))

\* f is the result r with some date ranges left out.
Thinned(f, r) ==
    /\ f.locationName = r.locationName
    /\ f.resourceId = r.resourceId
    /\ IsSubsequence(f.dateRanges, r.dateRanges)

\* fs is rs with some results left out and the others thinned, in their order.
RECURSIVE IsThinning(_, _)
IsThinning(fs, rs) ==
    IF fs = <<>> THEN TRUE
    ELSE IF rs = <<>> THEN FALSE
    ELSE \/ Thinned(Head(fs), Head(rs)) /\ IsThinning(Tail(fs), Tail(rs))
         \/ IsThinning(fs, Tail(rs))

\* C12: the requests are issued range-major and location-minor in
\* configuration order; the aggregated sequence is the results of the
\* requests in that order, each request's results in payload order; the
\* filtered sequence keeps the order of the surviving results and of the
\* surviving date ranges of each result.
C12_OrderPreserved ==
    /\ Len(requests) <= Len(PairsFrom(1))
    /\ QueriedPairs = SubSeq(PairsFrom(1), 1, Len(requests))
    /\ all_available_resources = ProjectionsFrom(1)
    /\ IsThinning(filtered_resources, all_available_resources)

\* A finished run of four requests: two of them, of different ranges, gave
\* a result, one payload had an entry without date ranges before the entry
\* with some, and the filter removed a date range of a result it kept.
C12_Witness ==
    /\ pc = "done"
    /\ Len(requests) = 4
    /\ \E i, j \in 1..Len(requests) :
          /\ requests[i].range < requests[j].range
          /\ requests[i].found # <<>> /\ requests[j].found # <<>>
    /\ \E q \in Range(requests) :
          Len(q.payload) = 2 /\ Len(q.found) = 1 /\ ~HasDateRange(q.payload[1])
    /\ Len(filtered_resources) = 2
    /\ \E k \in 1..2 :
          Len(filtered_resources[k].dateRanges) < Len(all_available_resources[k].dateRanges)

\* C13: send_email_notification returns True only when the message was
\* delivered; with an empty list or without the credential it returns False
\* and attempts no delivery; when the delivery attempt fails it returns False.
C13_TrueOnlyWhenDelivered ==
    call.called =>
        LET r == call.result
        IN /\ ~r.raised
           /\ r.value \in {PyTrue, PyFalse}
           /\ r.value = PyTrue => r.attempts = <<"delivered">>
           /\ (call.available_resources = <<>> \/ ~call.app_password_set) =>
                 r.value = PyFalse /\ r.attempts = <<>>
           /\ r.attempts = <<"failed">> => r.value = PyFalse
           /\ (call.available_resources # <<>> /\ call.app_password_set) =>
                 r.attempts = IF call.smtp_ok THEN <<"delivered">> ELSE <<"failed">>

\* A call with a non-empty list and no credential, where the SMTP session
\* would have gone through: False, and no delivery attempt.
C13_Witness ==
    /\ call.called
    /\ call.available_resources # <<>>
    /\ ~call.app_password_set /\ call.smtp_ok
    /\ call.result.value = PyFalse
    /\ call.result.attempts = <<>>

\* The ranges main does not skip: those that do not end before today + 2 days.
NonSkippedRanges == {r \in 1..Len(DATE_RANGES) : ~(end_dt(r) < today)}

LocationNames == {RESOURCE_LOCATIONS[i].name : i \in 1..Len(RESOURCE_LOCATIONS)}

\* C14: no (range, location) pair is queried twice, whether its query
\* succeeded or failed; when the collection is over every pair of every
\* non-skipped range has been queried, so the number of requests is the
\* number of non-skipped ranges times the number of locations.
C14_EachPairQueriedOnce ==
    /\ \A i, j \in 1..Len(requests) : i < j => QueriedPairs[i] # QueriedPairs[j]
    /\ CollectionOver =>
          /\ Range(QueriedPairs) = NonSkippedRanges \X LocationNames
          /\ Len(requests) = Cardinality(NonSkippedRanges) * Len(RESOURCE_LOCATIONS)

\* A finished run over two configured ranges, one of them skipped, whose
\* first query failed: two requests in all.
C14_Witness ==
    /\ pc = "done"
    /\ Len(DATE_RANGES) = 2
    /\ Cardinality(NonSkippedRanges) = 1
    /\ Len(requests) = 2
    /\ ~requests[1].succeeded

\* The run is in its second state, FILTERING_AND_NOTIFYING.
FilteringAndNotifying == pc \in {"filter", "done"} \/ RaisedInFilter

\* C15: once the filtering pass has started the run never collects again
\* and issues no further request; the pass starts, and the notification is
\* called, only after every request of the run has returned.
C15_CollectThenFilterOnce ==
    /\ [][FilteringAndNotifying => (FilteringAndNotifying' /\ requests' = requests)]_vars
    /\ [](FilteringAndNotifying => QueriedPairs = PairsFrom(1))
    /\ [](notifyCalls # <<>> => (pc = "done" /\ fi > Len(all_available_resources)))

\* A finished run that issued the requests of two ranges, then filtered,
\* then notified.
C15_Witness ==
    /\ pc = "done"
    /\ Len(requests) = 2 * Len(RESOURCE_LOCATIONS)
    /\ fi > 1
    /\ notifyCalls # <<>>

\* C16: when the run ends, every date range of an aggregated result whose
\* start and end are both outside the excluded set is in the filtered
\* sequence under a result with the same locationName and resourceId; with
\* an empty excluded set the filtered sequence is the aggregated sequence.
C16_KeepsWhatItShould ==
    Terminated =>
        /\ \A res \in Range(all_available_resources) :
              \A dr \in Range(res.dateRanges) :
                  (~Excluded(dr.start) /\ ~Excluded(dr.end)) =>
                      \E f \in Range(filtered_resources) :
                          /\ f.locationName = res.locationName
                          /\ f.resourceId = res.resourceId
                          /\ dr \in Range(f.dateRanges)
        /\ EXCLUDED_DATES = {} => filtered_resources = all_available_resources

\* C17: every request carries as start date the later of the configured
\* start of its range and today + 2 days, and as end date the configured
\* end of its range; no request starts before today + 2 days; the requests
\* of one range carry the same two dates.
C17_RequestDates ==
    /\ \A q \in Range(requests) :
          /\ strptime(q.startDate) = Max(strptime(DATE_RANGES[q.range][1]), clock + LOOKAHEAD_DAYS)
          /\ strptime(q.endDate) = strptime(DATE_RANGES[q.range][2])
          /\ strptime(q.startDate) >= clock + LOOKAHEAD_DAYS
    /\ \A q1, q2 \in Range(requests) :
          q1.range = q2.range => (q1.startDate = q2.startDate /\ q1.endDate = q2.endDate)

\* A finished run that queried every location of a range whose configured
\* start lies before today + 2 days and whose end is written without
\* leading zeros.
C17_Witness ==
    /\ pc = "done"
    /\ \E r \in 1..Len(DATE_RANGES) :
          /\ strptime(DATE_RANGES[r][1]) < clock + LOOKAHEAD_DAYS
          /\ ~DATE_RANGES[r][2].padded
          /\ Cardinality({q \in Range(requests) : q.range = r}) = Len(RESOURCE_LOCATIONS)

====
